---- MODULE Spec2Model ----
(***************************************************************************)
(* Tag0: low-bit tagged values (int64_t / double / bool) over a            *)
(* fixed-capacity ConstexprHeap, and the generalized add.                  *)
(*                                                                         *)
(* Representation choices of the model:                                    *)
(*  - int64_t is a two's-complement word of WordBits bits (the source has  *)
(*    64); every shift, OR and AND is computed on the bits, so the three   *)
(*    bits a left shift drops are dropped here too. Where the language    *)
(*    leaves a signed shift undefined (C++17), the shift is the one g++    *)
(*    and clang emit: << keeps the low bits, >> copies the sign.           *)
(*  - a double is an integer count of halves (20.5 is 41, -1.0 is -2), so  *)
(*    static_cast<double>(i) is 2*i and not the identity; on the values    *)
(*    the model uses IEEE addition is exact.                               *)
(*  - assert(false) terminates the process, as in the build the README    *)
(*    gives (no NDEBUG): aborted becomes TRUE and no operation runs        *)
(*    afterwards.                                                          *)
(***************************************************************************)
EXTENDS Integers, Sequences, FiniteSets

\* ---------------------------------------------------------------- bounds
\* width of the machine word standing for int64_t
WordBits == 8
\* capacity N of the double heap, ConstexprHeap<double, N>
DoubleCap == 2
\* capacity N of the int heap, ConstexprHeap<int64_t, N>
IntCap == 1

\* ------------------------------------------------------ program constants
\* the shift distance 3 of tag_value / untag_value / allocate / dereference
TagBits == 3
\* the mask 0b111 of is_type and BoolPolicy::untag_value
TagMask == 7
IntPolicy_tag == 0
DoublePolicy_tag == 1
BoolPolicy_tag == 3

\* ------------------------------------------------------- word arithmetic
Pow2(n) == 2 ^ n

Modulus == Pow2(WordBits)
MinWord == -Pow2(WordBits - 1)
MaxWord == Pow2(WordBits - 1) - 1
Words == MinWord..MaxWord

\* the bit pattern of a signed word, and back
ToUnsigned(x) == x % Modulus
ToSigned(u) == IF u >= Pow2(WordBits - 1) THEN u - Modulus ELSE u

RECURSIVE OrBits(_, _, _)
OrBits(x, y, n) ==
  IF n = 0 THEN 0
  ELSE (IF x % 2 = 1 \/ y % 2 = 1 THEN 1 ELSE 0) + 2 * OrBits(x \div 2, y \div 2, n - 1)

RECURSIVE AndBits(_, _, _)
AndBits(x, y, n) ==
  IF n = 0 THEN 0
  ELSE (IF x % 2 = 1 /\ y % 2 = 1 THEN 1 ELSE 0) + 2 * AndBits(x \div 2, y \div 2, n - 1)

\* x | y, x & y, ~x on signed words
BitOr(x, y) == ToSigned(OrBits(ToUnsigned(x), ToUnsigned(y), WordBits))
BitAnd(x, y) == ToSigned(AndBits(ToUnsigned(x), ToUnsigned(y), WordBits))
BitNot(x) == -x - 1

\* x << k: the high k bits are lost; x >> k: arithmetic (sign-preserving)
Shl(x, k) == ToSigned((ToUnsigned(x) * Pow2(k)) % Modulus)
Sar(x, k) == x \div Pow2(k)

\* int64_t + int64_t
AddInt64(x, y) == ToSigned(ToUnsigned(x + y))

\* static_cast<double>(i), in halves
ToDouble(i) == 2 * i

\* the kinds T of the templates
Kinds == {"int64_t", "double", "bool"}

\* a literal of the source converted to T (return -1 in a function returning T)
Literal(T, i) == IF T = "double" THEN ToDouble(i) ELSE i

\* ----------------------------------------------------------- Tag policies
IntPolicy_tag_value(value) == BitOr(Shl(value, TagBits), IntPolicy_tag)
\* mutant: a logical right shift, which loses the sign
IntPolicy_untag_value_logical(value) == ToUnsigned(value) \div Pow2(TagBits)
IntPolicy_untag_value(value) == Sar(value, TagBits)

BoolPolicy_tag_value(value) == BitOr(IF value THEN 1 ELSE 0, BoolPolicy_tag)
BoolPolicy_untag_value(value) == BitAnd(value, BitNot(TagMask)) # 0

TagTraits_tag(T) ==
  CASE T = "int64_t" -> IntPolicy_tag
    [] T = "double"  -> DoublePolicy_tag
    [] T = "bool"    -> BoolPolicy_tag

\* ---------------------------------------------------------- ConstexprHeap
\* a heap is [storage, next_index]; cap is the template argument N
EmptyHeap(cap) == [storage |-> [k \in 0..(cap - 1) |-> 0], next_index |-> 0]

\* mutant: the capacity test is off by one (> for >=)
allocate_off_by_one(heap, cap, T, value) ==
  IF heap.next_index > cap
  THEN [heap |-> heap, ret |-> -1]
  ELSE [heap |-> [storage    |-> [k \in DOMAIN heap.storage |->
                                    IF k = heap.next_index THEN value ELSE heap.storage[k]],
                  next_index |-> heap.next_index + 1],
        ret  |-> BitOr(Shl(heap.next_index, TagBits), TagTraits_tag(T))]

\* mutant: the cursor is read but not advanced (next_index for next_index++)
allocate_no_advance(heap, cap, T, value) ==
  IF heap.next_index >= cap
  THEN [heap |-> heap, ret |-> -1]
  ELSE [heap |-> [storage    |-> [heap.storage EXCEPT ![heap.next_index] = value],
                  next_index |-> heap.next_index],
        ret  |-> BitOr(Shl(heap.next_index, TagBits), TagTraits_tag(T))]

\* allocate: the heap afterwards and the returned pointer
allocate(heap, cap, T, value) ==
  IF heap.next_index >= cap
  THEN [heap |-> heap, ret |-> -1]
  ELSE [heap |-> [storage    |-> [heap.storage EXCEPT ![heap.next_index] = value],
                  next_index |-> heap.next_index + 1],
        ret  |-> BitOr(Shl(heap.next_index, TagBits), TagTraits_tag(T))]

\* mutant: the index is checked against the cursor, not the capacity
dereference_below_cursor(heap, cap, T, ptr) ==
  LET index == ToUnsigned(Sar(ptr, TagBits))
  IN IF index >= heap.next_index THEN Literal(T, -1) ELSE heap.storage[index]

\* dereference: size_t index = (ptr >> 3) reads the shifted word as unsigned
dereference(heap, cap, T, ptr) ==
  LET index == ToUnsigned(Sar(ptr, TagBits))
  IN IF index >= cap THEN Literal(T, -1) ELSE heap.storage[index]

\* ------------------------------------------------------------ TaggedValue
is_type(raw, T) == BitAnd(raw, TagMask) = TagTraits_tag(T)

as_int64(raw) == IF is_type(raw, "int64_t") THEN IntPolicy_untag_value(raw) ELSE -1
\* mutant: the word is dereferenced without the type test
as_double_unchecked(raw, heap, cap) == dereference(heap, cap, "double", raw)
as_double(raw, heap, cap) ==
  IF is_type(raw, "double") THEN dereference(heap, cap, "double", raw) ELSE ToDouble(-1)
as_bool(raw) == IF is_type(raw, "bool") THEN BoolPolicy_untag_value(raw) ELSE FALSE

as(raw, T, heap, cap) ==
  CASE T = "int64_t" -> as_int64(raw)
    [] T = "double"  -> as_double(raw, heap, cap)
    [] T = "bool"    -> as_bool(raw)

from_int64(value) == IntPolicy_tag_value(value)
from_bool(value) == BoolPolicy_tag_value(value)
\* mutant: the failed allocation is returned as { -1 } without the assert
from_double_no_assert(value, heap, cap) ==
  LET r == allocate(heap, cap, "double", value)
  IN [heap |-> r.heap, ret |-> r.ret, abort |-> FALSE]

\* from<double>: the heap afterwards, the raw word, and whether the assert fired
from_double(value, heap, cap) ==
  LET r == allocate(heap, cap, "double", value)
  IN [heap |-> r.heap, ret |-> r.ret, abort |-> (r.ret = -1)]

\* -------------------------------------------------------------------- add
\* mutant: an Integer operand is read as a double without being widened
promote_as_double(x, heap, cap) == as_double(x, heap, cap)

\* the double an operand contributes on the promotion path (fa, fb)
promote(x, heap, cap) ==
  IF is_type(x, "int64_t") THEN ToDouble(as_int64(x)) ELSE as_double(x, heap, cap)

\* mutant: the integer sum is returned without being tagged again
add_untagged(a, b, heap, cap) ==
  IF is_type(a, "int64_t") /\ is_type(b, "int64_t")
  THEN [heap |-> heap, ret |-> AddInt64(as_int64(a), as_int64(b)), abort |-> FALSE]
  ELSE from_double(promote(a, heap, cap) + promote(b, heap, cap), heap, cap)

\* add; heap is double_heap: int_heap is only handed on to as<int64_t> and
\* from<int64_t>, which do not use it
add(a, b, heap, cap) ==
  IF is_type(a, "int64_t") /\ is_type(b, "int64_t")
  THEN [heap |-> heap, ret |-> from_int64(AddInt64(as_int64(a), as_int64(b))),
        abort |-> FALSE]
  ELSE from_double(promote(a, heap, cap) + promote(b, heap, cap), heap, cap)

\* ------------------------------------------------------------------ state
VARIABLES
  double_heap,  \* ConstexprHeap<double, DoubleCap>
  int_heap,     \* ConstexprHeap<int64_t, IntCap>; no operation allocates in it
  call,         \* the last operation: its name, its T, its operands and its result
  issued,       \* the pointers the double heap handed out, oldest first, each with
                \* the double stored and the operation that stored it
  aborted       \* assert(false) has fired

vars == <<double_heap, int_heap, call, issued, aborted>>

\* ----------------------------------------------------------------- inputs
MaxPayload == Pow2(WordBits - TagBits - 1) - 1
MinPayload == -Pow2(WordBits - TagBits - 1)

\* the double handed to allocate (0.5) and the one handed to from<double> (20.5)
AllocVals == {1}
RealVals == {41}
\* integers handed to from<int64_t> before add: the example 10, and the first
\* integer beyond the payload range, whose top bits the shift drops
AddInts == {10, MaxPayload + 1}
\* integers handed to from<int64_t> before an integer-integer add
IntPairInts == {5, 10, MaxPayload + 1}
\* the operands of add: tagged integers, the booleans and the live Real values
Operands ==
  {from_int64(i) : i \in AddInts} \cup {from_bool(v) : v \in BOOLEAN}
    \cup {issued[k].ptr : k \in 1..Len(issued)}
\* words built by hand: a Real-kind word whose index is the capacity, one whose
\* index is negative, and a Boolean-kind word
HandBuilt ==
  { BitOr(Shl(DoubleCap, TagBits), DoublePolicy_tag),
    BitOr(Shl(-1, TagBits), DoublePolicy_tag),
    BitOr(Shl(1, TagBits), BoolPolicy_tag) }
\* the words as<double> and dereference are asked about between heap
\* operations: every pointer handed out so far and the hand-built words
Probes == {issued[k].ptr : k \in 1..Len(issued)} \cup HandBuilt

NoCall == [op |-> "none", T |-> "none", a |-> 0, b |-> 0, ret |-> 0]

Init ==
  /\ double_heap = EmptyHeap(DoubleCap)
  /\ int_heap = EmptyHeap(IntCap)
  /\ call = NoCall
  /\ issued = <<>>
  /\ aborted = FALSE

\* ---------------------------------------------------------------- actions
Issue(r, value, by) ==
  IF r.ret = -1 THEN issued
  ELSE Append(issued, [ptr |-> r.ret, value |-> value, by |-> by])

\* double_heap.allocate(value)
Allocate(value) ==
  /\ ~aborted
  /\ LET r == allocate(double_heap, DoubleCap, "double", value)
     IN /\ double_heap' = r.heap
        /\ call' = [op |-> "allocate", T |-> "double", a |-> value, b |-> 0, ret |-> r.ret]
        /\ issued' = Issue(r, value, "allocate")
  /\ UNCHANGED <<int_heap, aborted>>

\* double_heap.dereference(ptr)
Dereference(ptr) ==
  /\ ~aborted
  /\ call' = [op |-> "dereference", T |-> "double", a |-> ptr, b |-> 0,
              ret |-> dereference(double_heap, DoubleCap, "double", ptr)]
  /\ UNCHANGED <<double_heap, int_heap, issued, aborted>>

\* int_heap.dereference(ptr)
DereferenceInt(ptr) ==
  /\ ~aborted
  /\ call' = [op |-> "dereference", T |-> "int64_t", a |-> ptr, b |-> 0,
              ret |-> dereference(int_heap, IntCap, "int64_t", ptr)]
  /\ UNCHANGED <<double_heap, int_heap, issued, aborted>>

\* TaggedValue::from<int64_t>(value, heap)
FromInt(value) ==
  /\ ~aborted
  /\ call' = [op |-> "from", T |-> "int64_t", a |-> value, b |-> 0,
              ret |-> from_int64(value)]
  /\ UNCHANGED <<double_heap, int_heap, issued, aborted>>

\* TaggedValue::from<bool>(value, heap)
FromBool(value) ==
  /\ ~aborted
  /\ call' = [op |-> "from", T |-> "bool", a |-> value, b |-> 0,
              ret |-> from_bool(value)]
  /\ UNCHANGED <<double_heap, int_heap, issued, aborted>>

\* TaggedValue::from<double>(value, double_heap)
FromDouble(value) ==
  /\ ~aborted
  /\ LET r == from_double(value, double_heap, DoubleCap)
     IN /\ double_heap' = r.heap
        /\ call' = [op |-> "from", T |-> "double", a |-> value, b |-> 0, ret |-> r.ret]
        /\ issued' = Issue(r, value, "from")
        /\ aborted' = r.abort
  /\ UNCHANGED int_heap

\* v.as<T>(heap) of the word raw
As(T, raw) ==
  /\ ~aborted
  /\ call' = [op |-> "as", T |-> T, a |-> raw, b |-> 0,
              ret |-> as(raw, T, double_heap, DoubleCap)]
  /\ UNCHANGED <<double_heap, int_heap, issued, aborted>>

\* add(a, b, int_heap, double_heap)
Add(a, b) ==
  /\ ~aborted
  /\ LET r == add(a, b, double_heap, DoubleCap)
     IN /\ double_heap' = r.heap
        /\ call' = [op |-> "add", T |-> "none", a |-> a, b |-> b, ret |-> r.ret]
        /\ issued' = IF is_type(a, "int64_t") /\ is_type(b, "int64_t") THEN issued
                     ELSE Issue(r, promote(a, double_heap, DoubleCap)
                                     + promote(b, double_heap, DoubleCap), "add")
        /\ aborted' = r.abort
  /\ UNCHANGED int_heap

Next ==
  \/ \E value \in AllocVals : Allocate(value)
  \/ \E ptr \in Probes : Dereference(ptr)
  \/ \E value \in RealVals : FromDouble(value)
  \/ \E raw \in Probes : As("double", raw)
  \/ \E a \in Operands, b \in Operands : Add(a, b)
  \/ \E i \in IntPairInts, j \in IntPairInts : Add(from_int64(i), from_int64(j))

Spec == Init /\ [][Next]_vars

\* ------------------------------------------- the codec, one call per input
\* the heaps the codec is asked about: k values allocated, k = 0..DoubleCap
RECURSIVE FilledHeap(_)
FilledHeap(k) ==
  IF k = 0 THEN EmptyHeap(DoubleCap)
  ELSE allocate(FilledHeap(k - 1), DoubleCap, "double", 41 + k).heap

RECURSIVE FilledIssued(_)
FilledIssued(k) ==
  IF k = 0 THEN <<>>
  ELSE Append(FilledIssued(k - 1),
              [ptr   |-> allocate(FilledHeap(k - 1), DoubleCap, "double", 41 + k).ret,
               value |-> 41 + k, by |-> "allocate"])

\* the call about to be made: every word for as, dereference and
\* from<int64_t>, both booleans for from<bool>
Requests ==
  [op : {"call_as"}, T : Kinds, a : Words, b : {0}, ret : {0}]
    \cup [op : {"call_dereference"}, T : {"double", "int64_t"}, a : Words, b : {0}, ret : {0}]
    \cup [op : {"call_from"}, T : {"int64_t"}, a : Words, b : {0}, ret : {0}]
    \cup [op : {"call_from"}, T : {"bool"}, a : BOOLEAN, b : {0}, ret : {0}]

InitCodec ==
  /\ \E k \in 0..DoubleCap : double_heap = FilledHeap(k) /\ issued = FilledIssued(k)
  /\ int_heap = EmptyHeap(IntCap)
  /\ call \in Requests
  /\ aborted = FALSE

NextCodec ==
  \/ call.op = "call_as" /\ As(call.T, call.a)
  \/ call.op = "call_dereference" /\ call.T = "double" /\ Dereference(call.a)
  \/ call.op = "call_dereference" /\ call.T = "int64_t" /\ DereferenceInt(call.a)
  \/ call.op = "call_from" /\ call.T = "int64_t" /\ FromInt(call.a)
  \/ call.op = "call_from" /\ call.T = "bool" /\ FromBool(call.a)

SpecCodec == InitCodec /\ [][NextCodec]_vars

TypeOK ==
  /\ double_heap.next_index \in 0..DoubleCap
  /\ int_heap = EmptyHeap(IntCap)
  /\ Len(issued) = double_heap.next_index
  /\ aborted \in BOOLEAN

\* ----------------------------------------------------------------- claims
\* what the formulas below read off a step
Cursor == double_heap.next_index
\* the tag a word carries, read off its low three bits
TagOf(raw) == raw % 8
\* an integer wrapped to a two's-complement word of w bits
WrapTo(x, w) == ((x + 2 ^ (w - 1)) % (2 ^ w)) - 2 ^ (w - 1)
InPayload(i) == -(2 ^ (WordBits - 4)) <= i /\ i < 2 ^ (WordBits - 4)
\* the step is a promotion add of from<int64_t>(i) and the k-th pointer handed
\* out, in either order, with a free slot in the double heap
PromotionOf(i, k) ==
  /\ k \in 1..Len(issued)
  /\ call'.op = "add"
  /\ \/ call'.a = from_int64(i) /\ call'.b = issued[k].ptr
     \/ call'.b = from_int64(i) /\ call'.a = issued[k].ptr
  /\ Cursor < DoubleCap
PromotionResult(i, k) ==
  /\ TagOf(call'.ret) = 1
  /\ as_double(call'.ret, double_heap', DoubleCap) = 2 * i + issued[k].value
  /\ double_heap'.next_index = Cursor + 1
  /\ as_int64(from_int64(i)) = i
  /\ as_double(issued[k].ptr, double_heap', DoubleCap) = issued[k].value

\* C1 as stated: adding from<int64_t>(i), for every integer i, and a Real built
\* from d, in either order, gives a Real that reads double(i) + d, advances the
\* double heap's cursor by one and leaves both operands readable.
C1_AnyInteger ==
  [][\A i \in AddInts, k \in 1..DoubleCap : PromotionOf(i, k) => PromotionResult(i, k)]_vars

\* C1 amended: the same for every integer i of the payload range
\* [-2^(WordBits-4), 2^(WordBits-4)), which is [-2^60, 2^60) in the source.
C1_PromotionAddition ==
  [][\A i \in AddInts, k \in 1..DoubleCap :
       PromotionOf(i, k) /\ InPayload(i) => PromotionResult(i, k)]_vars

\* C1 witness: add(from(10), from(20.5)) has returned the second pointer of the
\* heap, which reads 30.5.
C1_Witness ==
  /\ call.op = "add" /\ ~aborted
  /\ Len(issued) = 2
  /\ issued[1].value = 41 /\ issued[1].by = "from"
  /\ call.a = from_int64(10) /\ call.b = issued[1].ptr
  /\ call.ret = issued[2].ptr
  /\ as_double(call.ret, double_heap, DoubleCap) = 61

\* C2: allocate on a heap with a free slot returns a word other than -1, stores
\* the value at the cursor and advances the cursor by one; on a full heap it
\* returns -1 and changes nothing; either way every pointer handed out before
\* still dereferences to the value it was allocated with.
C2_ArenaExhaustion ==
  [][/\ (call'.op = "allocate" /\ call'.T = "double") =>
          /\ IF Cursor < DoubleCap
             THEN /\ call'.ret # -1
                  /\ double_heap'.next_index = Cursor + 1
                  /\ double_heap'.storage[Cursor] = call'.a
                  /\ \A j \in 0..(Cursor - 1) :
                       double_heap'.storage[j] = double_heap.storage[j]
             ELSE call'.ret = -1 /\ double_heap' = double_heap
          /\ \A k \in 1..Len(issued) :
               dereference(double_heap', DoubleCap, "double", issued[k].ptr) = issued[k].value
     /\ int_heap' = int_heap]_vars

\* C2 witness: after DoubleCap successful allocate calls a further allocate has
\* returned -1, and the first pointer still dereferences to its value.
C2_Witness ==
  /\ call.op = "allocate" /\ call.T = "double" /\ call.ret = -1
  /\ Len(issued) = DoubleCap
  /\ \A k \in 1..Len(issued) : issued[k].by = "allocate"
  /\ dereference(double_heap, DoubleCap, "double", issued[1].ptr) = issued[1].value

\* the step adds from<int64_t>(i) and from<int64_t>(j)
IntegerAddOf(i, j) ==
  call'.op = "add" /\ call'.a = from_int64(i) /\ call'.b = from_int64(j)
IntegerAddResult(i, j, w) ==
  /\ TagOf(call'.ret) = 0
  /\ as_int64(call'.ret) = WrapTo(i + j, w)
  /\ double_heap' = double_heap /\ int_heap' = int_heap /\ ~aborted'

\* C3 as stated: adding from<int64_t>(i) and from<int64_t>(j) gives an Integer
\* that reads i + j wrapped to the full word (64 bits in the source), and
\* changes neither heap.
C3_FullWordWrap ==
  [][\A i \in IntPairInts, j \in IntPairInts :
       IntegerAddOf(i, j) => IntegerAddResult(i, j, WordBits)]_vars

\* C3 amended: the sum is wrapped to the payload width, WordBits - 3 bits (61 in
\* the source): the result reads i + j reduced into [-2^60, 2^60).
C3_IntegerAddition ==
  [][\A i \in IntPairInts, j \in IntPairInts :
       IntegerAddOf(i, j) => IntegerAddResult(i, j, WordBits - 3)]_vars

\* C3 witness: add(from(10), from(5)) has returned the Integer 15.
C3_Witness ==
  /\ call.op = "add"
  /\ call.a = from_int64(10) /\ call.b = from_int64(5)
  /\ TagOf(call.ret) = 0 /\ as_int64(call.ret) = 15
  /\ Cursor = 1

\* C4 as stated: from<bool>(b) is of Boolean kind and reads back b, for both b.
C4_BooleanRoundTrip ==
  (call.op = "from" /\ call.T = "bool") =>
    (TagOf(call.ret) = 3 /\ as_bool(call.ret) = call.a)

\* C5 as stated: from<int64_t>(i) is of Integer kind and reads back i, for every
\* word i.
C5_EveryWord ==
  (call.op = "from" /\ call.T = "int64_t") =>
    (TagOf(call.ret) = 0 /\ as_int64(call.ret) = call.a)

\* C5 amended: from<int64_t>(i) is of Integer kind for every word i, and reads
\* back i for every i of the payload range [-2^(WordBits-4), 2^(WordBits-4)),
\* which is [-2^60, 2^60) in the source.
C5_IntegerRoundTrip ==
  (call.op = "from" /\ call.T = "int64_t") =>
    /\ TagOf(call.ret) = 0
    /\ InPayload(call.a) => as_int64(call.ret) = call.a

\* C5 witness: from<int64_t>(-3) has been built, a negative integer.
C5_Witness ==
  call.op = "from" /\ call.T = "int64_t" /\ call.a = -3 /\ as_int64(call.ret) = -3

\* C6: on every step, every pointer the double heap has handed out reads back,
\* through as<double>, the double it was handed out for; a pointer handed out
\* by the step carries the cursor of before the step as its index and differs
\* from every earlier pointer; the cursor never decreases and no slot below it
\* changes.
C6_RealRoundTripStable ==
  [][/\ \A k \in 1..Len(issued') :
          as_double(issued'[k].ptr, double_heap', DoubleCap) = issued'[k].value
     /\ \A j \in 0..(Cursor - 1) : double_heap'.storage[j] = double_heap.storage[j]
     /\ double_heap'.next_index >= Cursor
     /\ Len(issued') = double_heap'.next_index
     /\ Len(issued') > Len(issued) =>
          /\ Len(issued') = Len(issued) + 1
          /\ issued'[Len(issued')].ptr \div 8 = Cursor
          /\ TagOf(issued'[Len(issued')].ptr) = 1
          /\ \A k \in 1..Len(issued) : issued'[k].ptr # issued'[Len(issued')].ptr]_vars

\* C6 witness: the Real built first by from<double>(20.5) is read by as<double>
\* after an add has filled the rest of the heap, and still reads 20.5.
C6_Witness ==
  /\ Len(issued) = DoubleCap
  /\ issued[1].by = "from" /\ issued[1].value = 41
  /\ issued[2].by = "add"
  /\ call.op = "as" /\ call.T = "double"
  /\ call.a = issued[1].ptr /\ call.ret = 41

\* the default as<T> returns on a type mismatch: -1, -1.0, false
DefaultOf(T) ==
  CASE T = "int64_t" -> -1
    [] T = "double"  -> -2
    [] T = "bool"    -> FALSE
TagNumber(T) ==
  CASE T = "int64_t" -> 0
    [] T = "double"  -> 1
    [] T = "bool"    -> 3

\* C7: as<T> of a word whose low three bits are not T's tag returns the default
\* of T (-1, -1.0, false) and changes neither heap.
C7_TypeMismatchDefault ==
  [][(call'.op = "as" /\ TagOf(call'.a) # TagNumber(call'.T)) =>
       /\ call'.ret = DefaultOf(call'.T)
       /\ double_heap' = double_heap /\ int_heap' = int_heap]_vars

\* C7 witness: as<double> of from<int64_t>(0), whose index part names a slot of
\* a heap holding a value, has returned -1.0.
C7_Witness ==
  /\ call.op = "as" /\ call.T = "double"
  /\ call.a = from_int64(0) /\ Cursor > 0
  /\ call.ret = -2

\* C8: as<double> and dereference of a Real-kind word return -1.0 when the index
\* raw >> 3 is negative or at least the capacity, and the slot's content
\* otherwise, which is 0 for a slot at or above the cursor; the heap is
\* unchanged.
C8_InvalidPointer ==
  [][(/\ call'.op \in {"as", "dereference"} /\ call'.T = "double"
      /\ TagOf(call'.a) = 1) =>
       LET index == call'.a \div 8
       IN /\ (index < 0 \/ index >= DoubleCap) => call'.ret = -2
          /\ (0 <= index /\ index < DoubleCap) => call'.ret = double_heap.storage[index]
          /\ (Cursor <= index /\ index < DoubleCap) => call'.ret = 0
          /\ double_heap' = double_heap /\ ~aborted']_vars

\* C8 witness: as<double> of a negative Real-kind word has returned -1.0.
C8_Witness ==
  /\ call.op = "as" /\ call.T = "double"
  /\ call.a < 0 /\ TagOf(call.a) = 1
  /\ call.ret = -2

\* the step is from<double>, or an add with an operand that is not an Integer
NeedsSlot(c) ==
  \/ c.op = "from" /\ c.T = "double"
  \/ c.op = "add" /\ ~(TagOf(c.a) = 0 /\ TagOf(c.b) = 0)
ByAdd(seq) == {k \in 1..Len(seq) : seq[k].by = "add"}

\* C9: from<double> and a promotion add abort on a full double heap, returning
\* no usable word and leaving the heap unchanged, and take exactly one slot
\* otherwise; so the promotion adds completed never exceed the capacity minus
\* the slots taken otherwise; an Integer-Integer add never aborts.
C9_AllocationFailureAborts ==
  [][/\ NeedsSlot(call') =>
          IF Cursor = DoubleCap
          THEN /\ aborted'
               /\ TagOf(call'.ret) \notin {0, 1, 3}
               /\ double_heap' = double_heap /\ issued' = issued
          ELSE /\ ~aborted'
               /\ double_heap'.next_index = Cursor + 1
     /\ (call'.op = "add" /\ ~NeedsSlot(call')) => ~aborted'
     /\ Cardinality(ByAdd(issued')) <=
          DoubleCap - (double_heap'.next_index - Cardinality(ByAdd(issued')))
     /\ Cardinality(ByAdd(issued')) <= double_heap'.next_index]_vars

\* C9 witness: a promotion add on a full double heap has aborted.
C9_Witness ==
  /\ aborted /\ call.op = "add" /\ NeedsSlot(call)
  /\ Cursor = DoubleCap

\* what an operand of a promotion add is worth: an Integer its value, a
\* pointer handed out the double it was handed out for
Known(x) == TagOf(x) = 0 \/ \E k \in 1..Len(issued) : issued[k].ptr = x
WorthOf(x) ==
  IF TagOf(x) = 0 THEN 2 * (x \div 8)
  ELSE issued[CHOOSE k \in 1..Len(issued) : issued[k].ptr = x].value
\* the step is an add of a Boolean-kind word and x, in either order, with a
\* free slot in the double heap
BooleanAddOf(x) ==
  /\ call'.op = "add" /\ Cursor < DoubleCap
  /\ \/ TagOf(call'.a) = 3 /\ call'.b = x
     \/ TagOf(call'.b) = 3 /\ call'.a = x
\* the word the step's Boolean operand is
BooleanOperand == IF TagOf(call'.a) = 3 THEN call'.a ELSE call'.b
NewReal(d) ==
  /\ TagOf(call'.ret) = 1 /\ call'.ret \div 8 = Cursor
  /\ double_heap'.next_index = Cursor + 1
  /\ double_heap'.storage[Cursor] = d

\* C10 as stated: a Boolean operand of add contributes what dereferencing it as
\* a Real pointer returns: the slot at index raw >> 3, or -1.0 when that index is
\* out of range.
C10_BooleanDereferenced ==
  [][\A x \in Operands :
       (BooleanAddOf(x) /\ Known(x)) =>
         LET index == BooleanOperand \div 8
         IN NewReal(WorthOf(x) + IF 0 <= index /\ index < DoubleCap
                                  THEN double_heap.storage[index] ELSE -2)]_vars

\* C10 amended: a Boolean operand of add is read by as<double>, whose type test
\* fails, so it contributes the type-mismatch default -1.0 whatever the heap
\* holds, never true or false; the result is a newly allocated Real.
C10_BooleanOperand ==
  [][/\ \A x \in Operands :
          (BooleanAddOf(x) /\ Known(x)) => NewReal(WorthOf(x) - 2)
     /\ (call'.op = "add" /\ Cursor < DoubleCap
           /\ TagOf(call'.a) = 3 /\ TagOf(call'.b) = 3) => NewReal(-4)]_vars

\* C10 witness: add(from<bool>(true), from<int64_t>(10)) on a heap whose slot 0
\* holds 20.5 has returned a Real reading 19.0 = -1.0 + 20.0.
C10_Witness ==
  /\ call.op = "add" /\ ~aborted
  /\ call.a = from_bool(TRUE) /\ call.b = from_int64(10)
  /\ Len(issued) = 2 /\ issued[1].value = 41
  /\ call.ret = issued[2].ptr
  /\ as_double(call.ret, double_heap, DoubleCap) = 18

====
